---- MODULE Spec2Model ----
(***************************************************************************)
(* ZeroBrave: the policy composition engine of the interactive session     *)
(* (src/src/tui.py), and the JSONC comment stripper, the policy validator, *)
(* the backup store and the command-line run (src/src/main.py).            *)
(*                                                                         *)
(* Python values are modelled with their type: a value is a record         *)
(* [t |-> type name, v |-> repr].  A dict is the sequence of its items     *)
(* [k |-> key, v |-> value] in insertion order, as Python keeps it.        *)
(* A text is the sequence of its characters.                               *)
(***************************************************************************)
EXTENDS Integers, Sequences, FiniteSets, TLC

VARIABLES
  catalog,          \* tui.CATEGORIES, the module global the session reads
  enabled,          \* TUI.enabled
  current_profile,  \* TUI.current_profile
  changes_made,     \* TUI.changes_made
  apply_callback,   \* TUI.apply_callback: "none" or "set"
  op,               \* the last operation called
  arg,              \* its argument
  policies,         \* the dict the last operation built (build_policies)
  counted,          \* the pair the last operation counted (count_enabled)
  raised,           \* the exception the last operation left to its caller
  json_str,         \* strip_json_comments: the input text
  stripped,         \* strip_json_comments(json_str)
  restripped,       \* strip_json_comments(stripped)
  document,         \* a comment-free JSON text, as its tokens and white space
  pieces,           \* the same text with comments put between its tokens
  parsed,           \* json.loads(stripped), as the tokens the parser reads
  loaded,           \* main: the document loaded (policies), validate_policies' argument
  warnings,         \* validate_policies(loaded)
  fs,               \* the files of the target's directory: name -> content
  parent_exists,    \* whether the target's directory exists
  clock,            \* datetime.now(), in seconds
  ret,              \* the value the last file operation returned
  log,              \* what the last operation or run reported through logger
  args,             \* main: the parsed command line
  pc,               \* main: the step main is at
  exit_code,        \* main: its return value
  env,              \* main: what the run finds outside (permissions, input, flatpak)
  started,          \* main: the files as they were when the run started
  made,             \* the path the most recent create_backup wrote (history)
  phase             \* the component running, and its position

tuiVars == <<catalog, enabled, current_profile, changes_made, apply_callback,
             op, arg, policies, counted, raised>>
jsonVars == <<json_str, stripped, restripped, document, pieces, parsed>>
cliVars == <<loaded, warnings, fs, parent_exists, clock, ret, log,
             args, pc, exit_code, env, started, made>>
vars == <<catalog, enabled, current_profile, changes_made, apply_callback,
          op, arg, policies, counted, raised,
          json_str, stripped, restripped, document, pieces, parsed,
          loaded, warnings, fs, parent_exists, clock, ret, log,
          args, pc, exit_code, env, started, made, phase>>

----------------------------------------------------------------------------
(* Python values and dicts *)

PyBool(b) == [t |-> "bool", v |-> b]
PyInt(n) == [t |-> "int", v |-> n]
PyStr(s) == [t |-> "str", v |-> s]
PyNone == [t |-> "NoneType", v |-> "None"]
PyList(l) == [t |-> "list", v |-> l]
PyDict(d) == [t |-> "dict", v |-> d]
PyTrue == PyBool("True")
PyFalse == PyBool("False")

Item(k, v) == [k |-> k, v |-> v]

\* list(d.keys())
Keys(d) == [i \in 1..Len(d) |-> d[i].k]

\* k in d
HasKey(d, k) == \E i \in 1..Len(d) : d[i].k = k

\* d[k], for a key d has
DictGet(d, k) == d[CHOOSE i \in 1..Len(d) : d[i].k = k].v

\* d[k] = v: a key d has keeps its place, a new key is added at the end
DictSet(d, k, v) ==
  IF HasKey(d, k)
    THEN [i \in 1..Len(d) |-> IF d[i].k = k THEN Item(k, v) ELSE d[i]]
    ELSE Append(d, Item(k, v))

\* set(d.keys())
KeySet(d) == {d[i].k : i \in 1..Len(d)}

\* A first-write-wins update: a key d has keeps d's value
DictUpdate_keep(d, other) ==
  LET dkeys == KeySet(d)
  IN  d \o SelectSeq(other, LAMBDA it : it.k \notin dkeys)

\* d.update(other): each item of other assigned, a key d has keeps its place
\* and takes other's value, the new keys follow in other's order
DictUpdate(d, other) ==
  LET dkeys == KeySet(d)
      okeys == KeySet(other)
  IN  [i \in 1..Len(d) |-> IF d[i].k \in okeys
                             THEN Item(d[i].k, DictGet(other, d[i].k)) ELSE d[i]]
        \o SelectSeq(other, LAMBDA it : it.k \notin dkeys)

\* x in xs, for a list xs
InList(x, xs) == \E i \in 1..Len(xs) : xs[i] = x

----------------------------------------------------------------------------
(* The compiled-in tables of tui.py *)

CATEGORIES ==
  <<
    [key |-> "ai", tag |-> "[AI]", policies |->
      << Item("BraveAIChatEnabled", PyBool("False")),
         Item("HelpMeWriteSettings", PyInt("2")),
         Item("GeminiSettings", PyInt("1")),
         Item("GenAiDefaultSettings", PyInt("2")),
         Item("GenAiLensOverlaySettings", PyInt("2")),
         Item("GenAILocalFoundationalModelSettings", PyInt("1")),
         Item("LensRegionSearchEnabled", PyBool("False")),
         Item("LensDesktopNTPSearchEnabled", PyBool("False")),
         Item("LensOverlaySettings", PyInt("1")) >>],
    [key |-> "privacy", tag |-> "[PRIV]", policies |->
      << Item("BlockThirdPartyCookies", PyBool("True")),
         Item("PrivacySandboxFingerprintingProtectionEnabled", PyBool("True")),
         Item("PrivacySandboxPromptEnabled", PyBool("False")),
         Item("PrivacySandboxAdTopicsEnabled", PyBool("False")),
         Item("PrivacySandboxSiteEnabledAdsEnabled", PyBool("False")),
         Item("PrivacySandboxAdMeasurementEnabled", PyBool("False")),
         Item("WebRtcIPHandling", PyStr("disable_non_proxied_udp")),
         Item("WebRtcEventLogCollectionAllowed", PyBool("False")) >>],
    [key |-> "telemetry", tag |-> "[TEL]", policies |->
      << Item("MetricsReportingEnabled", PyBool("False")),
         Item("DeviceMetricsReportingEnabled", PyBool("False")),
         Item("UrlKeyedAnonymizedDataCollectionEnabled", PyBool("False")),
         Item("UrlKeyedMetricsAllowed", PyBool("False")),
         Item("CloudProfileReportingEnabled", PyBool("False")),
         Item("CloudReportingEnabled", PyBool("False")),
         Item("ReportExtensionsAndPluginsData", PyBool("False")),
         Item("ReportMachineIDData", PyBool("False")),
         Item("ReportPolicyData", PyBool("False")),
         Item("ReportUserIDData", PyBool("False")),
         Item("ReportVersionData", PyBool("False")),
         Item("UserFeedbackAllowed", PyBool("False")),
         Item("FeedbackSurveysEnabled", PyBool("False")) >>],
    [key |-> "security", tag |-> "[SEC]", policies |->
      << Item("SafeBrowsingProtectionLevel", PyInt("2")),
         Item("SafeBrowsingExtendedReportingEnabled", PyBool("False")),
         Item("SafeBrowsingSurveysEnabled", PyBool("False")),
         Item("ComponentUpdatesEnabled", PyBool("True")) >>],
    [key |-> "autofill", tag |-> "[AUTO]", policies |->
      << Item("PaymentMethodQueryEnabled", PyBool("False")),
         Item("AutofillAddressEnabled", PyBool("False")),
         Item("AutofillCreditCardEnabled", PyBool("False")),
         Item("AutofillPredictionSettings", PyInt("2")),
         Item("PasswordManagerEnabled", PyBool("False")),
         Item("PasswordLeakDetectionEnabled", PyBool("False")),
         Item("PasswordSharingEnabled", PyBool("False")) >>],
    [key |-> "sync", tag |-> "[SYNC]", policies |->
      << Item("SyncDisabled", PyBool("True")),
         Item("BrowserSignin", PyInt("0")) >>],
    [key |-> "perms", tag |-> "[PERM]", policies |->
      << Item("DefaultGeolocationSetting", PyInt("2")),
         Item("DefaultNotificationsSetting", PyInt("2")),
         Item("DefaultWebBluetoothGuardSetting", PyInt("2")),
         Item("DefaultWebUsbGuardSetting", PyInt("2")),
         Item("DefaultFileSystemReadGuardSetting", PyInt("2")),
         Item("DefaultFileSystemWriteGuardSetting", PyInt("2")),
         Item("DefaultLocalFontsSetting", PyInt("2")),
         Item("DefaultSensorsSetting", PyInt("2")),
         Item("DefaultSerialGuardSetting", PyInt("2")),
         Item("DefaultCameraAccessAllowed", PyBool("False")),
         Item("DefaultMicAccessAllowed", PyBool("False")),
         Item("ScreenCaptureAllowed", PyBool("False")),
         Item("AutoplayAllowed", PyBool("False")) >>],
    [key |-> "brave", tag |-> "[BRAVE]", policies |->
      << Item("BraveRewardsDisabled", PyBool("True")),
         Item("BraveWalletDisabled", PyBool("True")),
         Item("BraveVPNDisabled", PyInt("1")),
         Item("TorDisabled", PyBool("True")),
         Item("BraveTalkEnabled", PyBool("False")) >>]
  >>

PROFILES ==
  << Item("strict", [name |-> "Strict", categories |->
        << "ai", "privacy", "telemetry", "security", "autofill", "sync", "perms", "brave" >>]),
     Item("balanced", [name |-> "Balanced", categories |->
        << "ai", "privacy", "telemetry", "security", "sync", "brave" >>]),
     Item("minimal", [name |-> "Minimal", categories |->
        << "ai", "telemetry", "brave" >>]) >>

----------------------------------------------------------------------------
(* class TUI.  `self` is the record of the fields the operations read and  *)
(* write, with `raised`: the exception the call leaves to its caller.      *)

NoDict == <<>>
NoCount == <<>>

RECURSIVE DictFromCategories(_, _)
DictFromCategories(cats, value) ==
  IF cats = <<>> THEN <<>>
  ELSE DictSet(DictFromCategories(SubSeq(cats, 1, Len(cats) - 1), value),
               cats[Len(cats)].key, value)

\* TUI.__init__: every category enabled, profile "strict", no changes
TUI_init(cats) ==
  [enabled |-> DictFromCategories(cats, TRUE),
   current_profile |-> "strict",
   changes_made |-> 0,
   raised |-> "none"]

RECURSIVE apply_profile_loop(_, _, _)
apply_profile_loop(self, cats, enabled_cats) ==
  IF cats = <<>> THEN self
  ELSE LET cat_key == Head(cats).key
           old_state == DictGet(self.enabled, cat_key)
           new_state == InList(cat_key, enabled_cats)
       IN  apply_profile_loop(
             [self EXCEPT !.changes_made = IF old_state # new_state THEN @ + 1 ELSE @,
                          !.enabled = DictSet(@, cat_key, new_state)],
             Tail(cats), enabled_cats)

\* A merge in place of the overwrite: a category the profile lacks keeps its state
RECURSIVE apply_profile_loop_merge(_, _, _)
apply_profile_loop_merge(self, cats, enabled_cats) ==
  IF cats = <<>> THEN self
  ELSE LET cat_key == Head(cats).key
           old_state == DictGet(self.enabled, cat_key)
           new_state == old_state \/ InList(cat_key, enabled_cats)
       IN  apply_profile_loop_merge(
             [self EXCEPT !.changes_made = IF old_state # new_state THEN @ + 1 ELSE @,
                          !.enabled = DictSet(@, cat_key, new_state)],
             Tail(cats), enabled_cats)

apply_profile_merge(self, profile_key) ==
  IF ~HasKey(PROFILES, profile_key)
    THEN [self EXCEPT !.raised = "none"]
    ELSE [apply_profile_loop_merge(self, catalog, DictGet(PROFILES, profile_key).categories)
            EXCEPT !.current_profile = profile_key, !.raised = "none"]

\* The enabled dict rebuilt from the profile's list: the other categories lose their entry
apply_profile_rebuild(self, profile_key) ==
  IF ~HasKey(PROFILES, profile_key)
    THEN [self EXCEPT !.raised = "none"]
    ELSE LET enabled_cats == DictGet(PROFILES, profile_key).categories
         IN  [self EXCEPT !.enabled = [i \in 1..Len(enabled_cats) |-> Item(enabled_cats[i], TRUE)],
                          !.changes_made = @ + 1,
                          !.current_profile = profile_key,
                          !.raised = "none"]

\* TUI.apply_profile
apply_profile(self, profile_key) ==
  IF ~HasKey(PROFILES, profile_key)
    THEN [self EXCEPT !.raised = "none"]
    ELSE [apply_profile_loop(self, catalog, DictGet(PROFILES, profile_key).categories)
            EXCEPT !.current_profile = profile_key, !.raised = "none"]

RECURSIVE build_policies_loop(_, _, _)
build_policies_loop(self, cats, result) ==
  IF cats = <<>> THEN result
  ELSE build_policies_loop(self, Tail(cats),
         IF DictGet(self.enabled, Head(cats).key)
           THEN DictUpdate(result, Head(cats).policies)
           ELSE result)

\* A build that answers from the defaults while the session counts no change
build_policies_cached(self) ==
  IF self.changes_made = 0
    THEN build_policies_loop(TUI_init(catalog), catalog, <<>>)
    ELSE build_policies_loop(self, catalog, <<>>)

\* TUI.build_policies
build_policies(self) == build_policies_loop(self, catalog, <<>>)

RECURSIVE SumLen(_, _)
SumLen(self, cats) ==
  IF cats = <<>> THEN 0
  ELSE (IF DictGet(self.enabled, Head(cats).key) THEN Len(Head(cats).policies) ELSE 0)
       + SumLen(self, Tail(cats))

\* TUI.count_enabled
count_enabled(self) ==
  << Cardinality({i \in 1..Len(self.enabled) : self.enabled[i].v}),
     SumLen(self, catalog) >>

\* A toggle that does not count its change
toggle_with_feedback_uncounted(self, idx) ==
  IF 1 <= idx /\ idx <= 8
    THEN LET key == catalog[idx].key
         IN  [self EXCEPT !.enabled = DictSet(@, key, ~DictGet(@, key)),
                          !.current_profile = "custom",
                          !.raised = "none"]
    ELSE [self EXCEPT !.raised = "none"]

\* A toggle that leaves the profile name as it was
toggle_with_feedback_named(self, idx) ==
  IF 1 <= idx /\ idx <= 8
    THEN LET key == catalog[idx].key
         IN  [self EXCEPT !.enabled = DictSet(@, key, ~DictGet(@, key)),
                          !.changes_made = @ + 1,
                          !.raised = "none"]
    ELSE [self EXCEPT !.raised = "none"]

\* TUI.toggle_with_feedback
toggle_with_feedback(self, idx) ==
  IF 1 <= idx /\ idx <= 8
    THEN LET key == catalog[idx].key
         IN  [self EXCEPT !.enabled = DictSet(@, key, ~DictGet(@, key)),
                          !.changes_made = @ + 1,
                          !.current_profile = "custom",
                          !.raised = "none"]
    ELSE [self EXCEPT !.raised = "none"]

\* TUI.run, choice 'a': all off when any is on, otherwise all on
toggle_all(self) ==
  LET any == \E i \in 1..Len(self.enabled) : self.enabled[i].v
  IN  [self EXCEPT !.enabled = [i \in 1..Len(@) |-> Item(@[i].k, ~any)],
                   !.changes_made = @ + 1,
                   !.current_profile = "custom",
                   !.raised = "none"]

\* TUI.render: the status bar looks the current profile up in PROFILES
render(self) ==
  [self EXCEPT !.raised = IF HasKey(PROFILES, self.current_profile)
                            THEN "none" ELSE "KeyError"]

\* An apply that resets the counter whatever the callback did
apply_resets(self, callback, callback_raises) ==
  [self EXCEPT !.changes_made = 0, !.raised = "none"]

\* TUI.apply: the counter is reset when the callback is set and returns
apply(self, callback, callback_raises) ==
  IF callback = "set" /\ ~callback_raises
    THEN [self EXCEPT !.changes_made = 0, !.raised = "none"]
    ELSE [self EXCEPT !.raised = "none"]

----------------------------------------------------------------------------
(* The interactive session: the operations of a TUI object over the        *)
(* compiled-in catalog, called in any order.                               *)

MaxChanges == 8
MaxIdx == 9

ProfileKeys == {"strict", "balanced", "minimal", "custom", "paranoid"}

Self ==
  [enabled |-> enabled, current_profile |-> current_profile,
   changes_made |-> changes_made, raised |-> raised]

Store(self) ==
  /\ self.changes_made <= MaxChanges
  /\ enabled' = self.enabled
  /\ current_profile' = self.current_profile
  /\ changes_made' = self.changes_made
  /\ raised' = self.raised

IdleCli ==
  /\ loaded = PyNone
  /\ warnings = <<>>
  /\ fs = <<>>
  /\ parent_exists = FALSE
  /\ clock = 0
  /\ ret = PyNone
  /\ log = <<>>
  /\ args = <<>>
  /\ pc = "idle"
  /\ exit_code = PyNone
  /\ env = <<>>
  /\ started = <<>>
  /\ made = PyNone

IdleJson ==
  /\ json_str = <<>>
  /\ stripped = <<>>
  /\ restripped = <<>>
  /\ document = <<>>
  /\ pieces = <<>>
  /\ parsed = <<>>

Init ==
  /\ catalog = CATEGORIES
  /\ enabled = TUI_init(CATEGORIES).enabled
  /\ current_profile = TUI_init(CATEGORIES).current_profile
  /\ changes_made = TUI_init(CATEGORIES).changes_made
  /\ raised = TUI_init(CATEGORIES).raised
  /\ apply_callback \in {"none", "set"}
  /\ op = "__init__"
  /\ arg = "none"
  /\ policies = NoDict
  /\ counted = NoCount
  /\ phase = "session"
  /\ IdleJson
  /\ IdleCli

ApplyProfile(profile_key) ==
  /\ phase = "session"
  /\ Store(apply_profile(Self, profile_key))
  /\ op' = "apply_profile"
  /\ arg' = profile_key
  /\ policies' = NoDict
  /\ counted' = NoCount
  /\ UNCHANGED <<catalog, apply_callback, phase>>
  /\ UNCHANGED jsonVars
  /\ UNCHANGED cliVars

Toggle(idx) ==
  /\ phase = "session"
  /\ Store(toggle_with_feedback(Self, idx))
  /\ op' = "toggle_with_feedback"
  /\ arg' = idx
  /\ policies' = NoDict
  /\ counted' = NoCount
  /\ UNCHANGED <<catalog, apply_callback, phase>>
  /\ UNCHANGED jsonVars
  /\ UNCHANGED cliVars

ToggleAll ==
  /\ phase = "session"
  /\ Store(toggle_all(Self))
  /\ op' = "toggle_all"
  /\ arg' = "none"
  /\ policies' = NoDict
  /\ counted' = NoCount
  /\ UNCHANGED <<catalog, apply_callback, phase>>
  /\ UNCHANGED jsonVars
  /\ UNCHANGED cliVars

\* TUI.show_preview
Preview ==
  /\ phase = "session"
  /\ policies' = build_policies(Self)
  /\ op' = "show_preview"
  /\ arg' = "none"
  /\ counted' = NoCount
  /\ raised' = "none"
  /\ UNCHANGED <<catalog, enabled, current_profile, changes_made, apply_callback, phase>>
  /\ UNCHANGED jsonVars
  /\ UNCHANGED cliVars

Render ==
  /\ phase = "session"
  /\ counted' = count_enabled(Self)
  /\ Store(render(Self))
  /\ op' = "render"
  /\ arg' = "none"
  /\ policies' = NoDict
  /\ UNCHANGED <<catalog, apply_callback, phase>>
  /\ UNCHANGED jsonVars
  /\ UNCHANGED cliVars

Apply ==
  /\ phase = "session"
  /\ policies' = build_policies(Self)
  /\ counted' = count_enabled(Self)
  /\ \E callback_raises \in BOOLEAN :
       /\ Store(apply(Self, apply_callback, callback_raises))
       /\ arg' = IF apply_callback = "none" THEN "no callback"
                 ELSE IF callback_raises THEN "callback raised" ELSE "callback returned"
  /\ op' = "apply"
  /\ UNCHANGED <<catalog, apply_callback, phase>>
  /\ UNCHANGED jsonVars
  /\ UNCHANGED cliVars

Next ==
  \/ \E profile_key \in ProfileKeys : ApplyProfile(profile_key)
  \/ \E idx \in 0..MaxIdx : Toggle(idx)
  \/ ToggleAll
  \/ Preview
  \/ Render
  \/ Apply

Spec == Init /\ [][Next]_vars

----------------------------------------------------------------------------
(* Properties of the session *)

IsBuild(o) == o \in {"show_preview", "apply"}

\* The enabled dict a profile asks for: one entry per category of the catalog,
\* true exactly for the categories of the profile's list
ProfileEnabled(cats, profile_key) ==
  [i \in 1..Len(cats) |->
     Item(cats[i].key, InList(cats[i].key, DictGet(PROFILES, profile_key).categories))]

\* C3: after apply_profile(p) for a profile p of the registry, each category of
\* the catalog is enabled if and only if its id is in p's list, whatever the
\* enabled-set was before (the result is a function of p alone).
C3_ApplyProfileOverwrites ==
  (op = "apply_profile" /\ HasKey(PROFILES, arg))
    => enabled = ProfileEnabled(catalog, arg)

\* apply_profile("balanced") has acted on a session that had switched
\* categories off which the profile switches on again
C3_Witness ==
  /\ op = "apply_profile"
  /\ arg = "balanced"
  /\ changes_made = 7
  /\ enabled = ProfileEnabled(catalog, "balanced")

\* C4: apply_profile with a profile id that is not in the registry fails with
\* an error its caller can observe.
C4_UnknownProfileFails ==
  (op = "apply_profile" /\ ~HasKey(PROFILES, arg)) => raised # "none"

\* C5: the enabled-set has exactly one boolean entry per category of the
\* catalog, in every state the operations reach.
C5_EnabledOnePerCategory ==
  /\ Keys(enabled) = [i \in 1..Len(catalog) |-> catalog[i].key]
  /\ \A i, j \in 1..Len(enabled) : enabled[i].k = enabled[j].k => i = j
  /\ \A i \in 1..Len(enabled) : enabled[i].v \in BOOLEAN

\* toggles, a toggle-all, a profile and an apply have acted
C5_Witness ==
  /\ op = "apply_profile"
  /\ arg = "minimal"
  /\ changes_made > 3
  /\ current_profile = "minimal"

\* The items of the enabled categories, in catalog order
RECURSIVE EnabledItems(_, _)
EnabledItems(cats, en) ==
  IF cats = <<>> THEN <<>>
  ELSE (IF DictGet(en, Head(cats).key) THEN Head(cats).policies ELSE <<>>)
       \o EnabledItems(Tail(cats), en)

\* The document as a function of the catalog and the enabled-set alone: the
\* keys of the enabled categories in order of first appearance, each with the
\* value of its last appearance
Composed(cats, en) ==
  LET items == EnabledItems(cats, en)
      first == SelectSeq([i \in 1..Len(items) |-> i],
                         LAMBDA i : \A j \in 1..(i - 1) : items[j].k # items[i].k)
      last(k) == CHOOSE i \in 1..Len(items) :
                   items[i].k = k /\ \A j \in (i + 1)..Len(items) : items[j].k # k
  IN  [n \in 1..Len(first) |-> Item(items[first[n]].k, items[last(items[first[n]].k)].v)]

\* C6: the document a build returns is a function of the current enabled-set
\* and the catalog alone (not of changes_made, current_profile or earlier
\* builds), and a build changes neither the enabled-set nor the catalog.
C6_BuildIsPure ==
  /\ [](IsBuild(op) => policies = Composed(catalog, enabled))
  /\ [][IsBuild(op') => (enabled' = enabled /\ catalog' = catalog)]_vars

\* a build after the counter was reset by an apply, on an enabled-set that is
\* no profile's and not the default
C6_Witness ==
  /\ op = "show_preview"
  /\ changes_made = 0
  /\ current_profile = "custom"
  /\ policies = Composed(catalog, enabled)
  /\ Len(policies) = 13

----------------------------------------------------------------------------
(* build_policies and count_enabled as functions of the catalog and the     *)
(* enabled dict: the shipped catalog and every small catalog, whose        *)
(* categories may define the same policy key.                              *)

MaxCategories == 3

CategoryIds == <<"c1", "c2", "c3", "c4", "c5">>
PolicyKeys == <<"K1", "K2">>
PolicyValues == {PyTrue, PyInt("2")}

\* The non-empty policy dicts over PolicyKeys
PolicyDicts ==
  LET idx == [i \in 1..Len(PolicyKeys) |-> i]
  IN  { [n \in 1..Len(SelectSeq(idx, LAMBDA i : i \in DOMAIN f)) |->
           LET i == SelectSeq(idx, LAMBDA x : x \in DOMAIN f)[n]
           IN  Item(PolicyKeys[i], f[i])] :
        f \in UNION {[S -> PolicyValues] : S \in SUBSET (1..Len(PolicyKeys)) \ {{}}} }

SmallCatalogs ==
  UNION { { [i \in 1..n |-> [key |-> CategoryIds[i], tag |-> "[C]", policies |-> p[i]]] :
            p \in [1..n -> PolicyDicts] } : n \in 1..MaxCategories }

\* The enabled dicts over a catalog (the tests assign TUI.enabled)
EnabledDicts(cats) ==
  { [i \in 1..Len(cats) |-> Item(cats[i].key, b[i])] : b \in [1..Len(cats) -> BOOLEAN] }

InitCompose ==
  /\ catalog \in SmallCatalogs \cup {CATEGORIES}
  /\ enabled \in EnabledDicts(catalog)
  /\ current_profile = "strict"
  /\ changes_made = 0
  /\ raised = "none"
  /\ apply_callback = "none"
  /\ op = "__init__"
  /\ arg = "none"
  /\ policies = NoDict
  /\ counted = NoCount
  /\ phase = "compose"
  /\ IdleJson
  /\ IdleCli

BuildPolicies ==
  /\ phase = "compose"
  /\ op = "__init__"
  /\ policies' = build_policies(Self)
  /\ op' = "build_policies"
  /\ UNCHANGED <<catalog, enabled, current_profile, changes_made, apply_callback,
                 arg, counted, raised, phase>>
  /\ UNCHANGED jsonVars
  /\ UNCHANGED cliVars

CountEnabled ==
  /\ phase = "compose"
  /\ op = "build_policies"
  /\ counted' = count_enabled(Self)
  /\ op' = "count_enabled"
  /\ UNCHANGED <<catalog, enabled, current_profile, changes_made, apply_callback,
                 arg, policies, raised, phase>>
  /\ UNCHANGED jsonVars
  /\ UNCHANGED cliVars

NextCompose ==
  \/ BuildPolicies
  \/ CountEnabled

SpecCompose == InitCompose /\ [][NextCompose]_vars

\* The enabled categories that define key k, by their place in the catalog
Defining(k) ==
  {i \in 1..Len(catalog) : DictGet(enabled, catalog[i].key) /\ HasKey(catalog[i].policies, k)}

Latest(S) == CHOOSE i \in S : \A j \in S : j <= i

AllPolicyKeys == UNION {KeySet(catalog[i].policies) : i \in 1..Len(catalog)}

\* C1: for every policy key defined by two or more enabled categories, the
\* built document holds the value of the enabled category that comes latest
\* in the catalog.
C1_LastWriteWins ==
  op \in {"build_policies", "count_enabled"} =>
    \A k \in AllPolicyKeys :
      Cardinality(Defining(k)) >= 2 =>
        /\ HasKey(policies, k)
        /\ DictGet(policies, k) = DictGet(catalog[Latest(Defining(k))].policies, k)

\* a document built over three enabled categories that define one key, the
\* latest with a value the earlier ones do not have
C1_Witness ==
  /\ op = "build_policies"
  /\ \E k \in AllPolicyKeys :
       /\ Cardinality(Defining(k)) >= 3
       /\ \A i \in Defining(k) \ {Latest(Defining(k))} :
            DictGet(catalog[i].policies, k) # DictGet(catalog[Latest(Defining(k))].policies, k)
       /\ DictGet(policies, k) = DictGet(catalog[Latest(Defining(k))].policies, k)

----------------------------------------------------------------------------
(* main.strip_json_comments.  A text is the sequence of its characters.    *)
(* re.sub scans the text from the left; at each position the pattern       *)
(*   ("(?:[^"\\]|\\.)*")|//[^\n]*|/\*[\s\S]*?\*/                           *)
(* either matches, and the match is replaced and skipped, or does not, and *)
(* the character is copied.  A match is given by its last position, 0 when *)
(* the alternative does not match.                                         *)

Quote == "\""
Backslash == "\\"
Newline == "\n"

At(s, i) == IF 1 <= i /\ i <= Len(s) THEN s[i] ELSE "EOF"

\* (?:[^"\\]|\\.)*" from position j: the position of the closing quote
RECURSIVE string_body_end(_, _)
string_body_end(s, j) ==
  IF j > Len(s) THEN 0
  ELSE IF s[j] = Quote THEN j
  ELSE IF s[j] = Backslash
    THEN (IF j + 1 <= Len(s) /\ s[j + 1] # Newline THEN string_body_end(s, j + 2) ELSE 0)
  ELSE string_body_end(s, j + 1)

\* ("(?:[^"\\]|\\.)*") at position i
string_end(s, i) ==
  IF At(s, i) = Quote THEN string_body_end(s, i + 1) ELSE 0

\* //[^\n]* at position i: up to the character before the next newline
line_comment_end(s, i) ==
  IF At(s, i) = "/" /\ At(s, i + 1) = "/"
    THEN LET stops == {j \in (i + 2)..Len(s) : s[j] = Newline}
         IN  IF stops = {} THEN Len(s)
             ELSE (CHOOSE j \in stops : \A k \in stops : j <= k) - 1
    ELSE 0

\* /\*[\s\S]*?\*/ at position i: up to the first */ that follows the /*
block_comment_end(s, i) ==
  IF At(s, i) = "/" /\ At(s, i + 1) = "*"
    THEN LET closes == {j \in (i + 2)..(Len(s) - 1) : s[j] = "*" /\ s[j + 1] = "/"}
         IN  IF closes = {} THEN 0
             ELSE (CHOOSE j \in closes : \A k \in closes : j <= k) + 1
    ELSE 0

NoMatch == [end |-> 0, group1 |-> FALSE]

\* The pattern without its string alternative: only the comments match
pattern_comments_only(s, i) ==
  IF line_comment_end(s, i) # 0 THEN [end |-> line_comment_end(s, i), group1 |-> FALSE]
  ELSE IF block_comment_end(s, i) # 0 THEN [end |-> block_comment_end(s, i), group1 |-> FALSE]
  ELSE NoMatch

\* The pattern with a block comment that need not be closed: /\*[\s\S]*?(\*/|$)
pattern_open_block(s, i) ==
  IF string_end(s, i) # 0 THEN [end |-> string_end(s, i), group1 |-> TRUE]
  ELSE IF line_comment_end(s, i) # 0 THEN [end |-> line_comment_end(s, i), group1 |-> FALSE]
  ELSE IF block_comment_end(s, i) # 0 THEN [end |-> block_comment_end(s, i), group1 |-> FALSE]
  ELSE IF At(s, i) = "/" /\ At(s, i + 1) = "*" THEN [end |-> Len(s), group1 |-> FALSE]
  ELSE NoMatch

\* pattern, matched at position i: the alternatives in their order
pattern(s, i) ==
  IF string_end(s, i) # 0 THEN [end |-> string_end(s, i), group1 |-> TRUE]
  ELSE IF line_comment_end(s, i) # 0 THEN [end |-> line_comment_end(s, i), group1 |-> FALSE]
  ELSE IF block_comment_end(s, i) # 0 THEN [end |-> block_comment_end(s, i), group1 |-> FALSE]
  ELSE NoMatch

\* replacer: a string is kept, a comment is removed
replacer(s, i, match) ==
  IF match.group1 THEN SubSeq(s, i, match.end) ELSE <<>>

\* re.sub(pattern, replacer, s), from position pos on
RECURSIVE re_sub(_, _)
re_sub(s, pos) ==
  IF pos > Len(s) THEN <<>>
  ELSE LET match == pattern(s, pos)
       IN  IF match.end = 0
             THEN <<s[pos]>> \o re_sub(s, pos + 1)
             ELSE replacer(s, pos, match) \o re_sub(s, match.end + 1)

\* re.sub(pattern, replacer, s, count=1): only the first match is replaced
RECURSIVE re_sub_first(_, _)
re_sub_first(s, pos) ==
  IF pos > Len(s) THEN <<>>
  ELSE LET match == pattern(s, pos)
       IN  IF match.end = 0
             THEN <<s[pos]>> \o re_sub_first(s, pos + 1)
             ELSE replacer(s, pos, match) \o SubSeq(s, match.end + 1, Len(s))

strip_json_comments_first(text) == re_sub_first(text, 1)

\* strip_json_comments
strip_json_comments(text) == re_sub(text, 1)


----------------------------------------------------------------------------
(* The JSONC loader on a text: strip_json_comments applied to the input,   *)
(* and again to its own result.                                            *)

MaxLen == 5

Chars == {Quote, Backslash, Newline, "/", "*", "a"}

\* Every text of up to MaxLen characters
ShortTexts == UNION {[1..n -> Chars] : n \in 0..MaxLen}

\* Texts of the specification and the tests, and longer edge cases
SeedTexts ==
  { <<"{", "\"", "u", "r", "l", "\"", ":", " ", "\"", "h", "t", "t", "p", ":", "/", "/", "x", "\"", "}">>,
    <<"{", "\"", "a", "\"", ":", "1", "}", "/", "/", "c">>,
    <<"{", "\"", "k", "e", "y", "\"", ":", " ", "/", "*", " ", "c", "o", "m", "m", "e", "n", "t", " ", "*", "/", " ", "\"", "v", "a", "l", "u", "e", "\"", "}">>,
    <<"\"", "/", "/", "\\", "\n", "\"", "/", "/", "\"">>,
    <<"[", "\"", "a", "\\", "\"", "/", "*", "b", "*", "/", "\"", "]", "/", "*", "c", "*", "/">>,
    <<"{", "\"", "a", "\"", ":", "1", "}", "/", "*", "x">>,
    <<"[", "\"", "/", "/", "\"", "]", "/", "*", "\"", "a", "\"">> }

IdleTui ==
  /\ catalog = CATEGORIES
  /\ enabled = TUI_init(CATEGORIES).enabled
  /\ current_profile = TUI_init(CATEGORIES).current_profile
  /\ changes_made = TUI_init(CATEGORIES).changes_made
  /\ raised = TUI_init(CATEGORIES).raised
  /\ apply_callback = "none"
  /\ op = "__init__"
  /\ arg = "none"
  /\ policies = NoDict
  /\ counted = NoCount

InitStrip ==
  /\ json_str \in ShortTexts \cup SeedTexts
  /\ stripped = <<>>
  /\ restripped = <<>>
  /\ document = <<>>
  /\ pieces = <<>>
  /\ parsed = <<>>
  /\ phase = "input"
  /\ IdleTui
  /\ IdleCli

Strip ==
  /\ phase = "input"
  /\ stripped' = strip_json_comments(json_str)
  /\ phase' = "stripped"
  /\ UNCHANGED <<json_str, restripped, document, pieces, parsed>>
  /\ UNCHANGED tuiVars
  /\ UNCHANGED cliVars

StripAgain ==
  /\ phase = "stripped"
  /\ restripped' = strip_json_comments(stripped)
  /\ phase' = "restripped"
  /\ UNCHANGED <<json_str, stripped, document, pieces, parsed>>
  /\ UNCHANGED tuiVars
  /\ UNCHANGED cliVars

NextStrip ==
  \/ Strip
  \/ StripAgain

SpecStrip == InitStrip /\ [][NextStrip]_vars

----------------------------------------------------------------------------
(* Properties of strip_json_comments, stated on the runs of the input:     *)
(* what a string literal, a line comment and a block comment are, said     *)
(* without the scan.                                                       *)

\* The character at q is escaped in a string opened at p: an odd number of
\* backslashes stands right before it
Escaped(s, p, q) ==
  Cardinality({j \in (p + 1)..(q - 1) : \A m \in j..(q - 1) : s[m] = Backslash}) % 2 = 1

\* p..e is a string literal: quote to the first quote that is not escaped,
\* no escaped newline inside
IsString(s, p, e) ==
  /\ s[p] = Quote /\ e > p /\ s[e] = Quote /\ ~Escaped(s, p, e)
  /\ \A q \in (p + 1)..(e - 1) :
       /\ s[q] = Quote => Escaped(s, p, q)
       /\ s[q] = Newline => ~Escaped(s, p, q)
       /\ (s[q] = Backslash /\ ~Escaped(s, p, q)) => q + 1 <= e - 1

\* p..e is a line comment: // to the end of the line
IsLineComment(s, p, e) ==
  /\ e >= p + 1 /\ s[p] = "/" /\ s[p + 1] = "/"
  /\ \A j \in (p + 2)..e : s[j] # Newline
  /\ e = Len(s) \/ s[e + 1] = Newline

\* p..e is a block comment: /* to the first */ after it
IsBlockComment(s, p, e) ==
  /\ e >= p + 3 /\ s[p] = "/" /\ s[p + 1] = "*" /\ s[e - 1] = "*" /\ s[e] = "/"
  /\ \A j \in (p + 2)..(e - 2) : ~(s[j] = "*" /\ s[j + 1] = "/")

Run(p, e, kind) == [from |-> p, to |-> e, kind |-> kind]

RunsOf(s) ==
  LET spans == {pe \in (1..Len(s)) \X (1..Len(s)) : pe[1] < pe[2]}
  IN  {Run(pe[1], pe[2], "string") : pe \in {x \in spans : IsString(s, x[1], x[2])}}
        \cup {Run(pe[1], pe[2], "line") : pe \in {x \in spans : IsLineComment(s, x[1], x[2])}}
        \cup {Run(pe[1], pe[2], "block") : pe \in {x \in spans : IsBlockComment(s, x[1], x[2])}}

\* The runs of s outside one another, leftmost first: runs that do not
\* overlap, and no run begins at a position they leave free
Lexing(s) ==
  LET runs == RunsOf(s)
      starts == {r.from : r \in runs}
  IN  CHOOSE R \in SUBSET runs :
        /\ \A r1, r2 \in R : r1 # r2 => (r1.to < r2.from \/ r2.to < r1.from)
        /\ \A p \in starts : \E r \in R : r.from <= p /\ p <= r.to

Covers(R, p) == \E r \in R : r.from <= p /\ p <= r.to

\* The position p of s is outside every string literal and comment
Free(s, p) == ~Covers(Lexing(s), p)

\* s without the characters of its comments
WithoutComments(s) ==
  LET comments == {r \in Lexing(s) : r.kind # "string"}
      keep == SelectSeq([i \in 1..Len(s) |-> i], LAMBDA i : ~Covers(comments, i))
  IN  [n \in 1..Len(keep) |-> s[keep[n]]]

Stripped == phase \in {"stripped", "restripped"}

\* C8: every string literal is copied through unchanged, whatever it holds
\* (// and /* */, text after an escaped quote); the characters deleted are
\* exactly those of the comments outside string literals, and what remains
\* keeps its order.
C8_OnlyCommentsDeleted ==
  Stripped => stripped = WithoutComments(json_str)

\* a text with a string literal that holds an escaped quote followed by a
\* comment opener, and a comment after it, has been stripped
C8_Witness ==
  /\ phase = "stripped"
  /\ \E r \in Lexing(json_str) :
       /\ r.kind = "string"
       /\ \E q \in (r.from + 1)..(r.to - 2) :
            /\ json_str[q] = Quote
            /\ \E j \in (q + 1)..(r.to - 2) : json_str[j] = "/" /\ json_str[j + 1] \in {"/", "*"}
       /\ \E c \in Lexing(json_str) : c.kind # "string" /\ c.from > r.to
       /\ SubSeq(stripped, r.from, r.to) = SubSeq(json_str, r.from, r.to)
  /\ Len(stripped) < Len(json_str)

\* A /* outside every string literal and comment with no */ after it
Unterminated(s, p) ==
  /\ p + 1 <= Len(s) /\ s[p] = "/" /\ s[p + 1] = "*"
  /\ Free(s, p)
  /\ \A j \in (p + 2)..(Len(s) - 1) : ~(s[j] = "*" /\ s[j + 1] = "/")

\* C9 as claimed: an unterminated /* and everything after it is deleted, so
\* the result is what is left of the text before the /*.
C9_UnterminatedDeletedToEnd ==
  Stripped =>
    \A p \in 1..Len(json_str) :
      Unterminated(json_str, p) =>
        stripped = strip_json_comments(SubSeq(json_str, 1, p - 1))

\* C9 amended: an unterminated /* is no comment: no error is raised, the /*
\* itself is copied to the result, and the text before it and the text after
\* it are stripped as they would be alone.
C9_UnterminatedKept ==
  Stripped =>
    \A p \in 1..Len(json_str) :
      Unterminated(json_str, p) =>
        stripped = strip_json_comments(SubSeq(json_str, 1, p - 1))
                     \o <<"/", "*">>
                     \o strip_json_comments(SubSeq(json_str, p + 2, Len(json_str)))

\* a text with an unterminated /* after a string and before more text has
\* been stripped
C9_Witness ==
  /\ phase = "stripped"
  /\ \E p \in 2..(Len(json_str) - 2) :
       /\ Unterminated(json_str, p)
       /\ \E r \in Lexing(json_str) : r.kind = "string" /\ r.to < p
  /\ stripped = json_str

\* C10 as claimed: stripping the result again changes nothing, for every text.
C10_Idempotent ==
  phase = "restripped" => restripped = stripped

\* Every double quote of s is inside a string literal or a comment
QuotesClosed(s) ==
  LET runs == Lexing(s)
  IN  \A p \in 1..Len(s) : s[p] = Quote => Covers(runs, p)

\* C10 amended: stripping the result again changes nothing, for every text
\* whose double quotes all lie inside string literals or comments.
C10_IdempotentWhenQuotesClosed ==
  (phase = "restripped" /\ QuotesClosed(json_str)) => restripped = stripped

\* a text with a string literal that holds a comment opener and with a
\* comment has been stripped twice
C10_Witness ==
  /\ phase = "restripped"
  /\ QuotesClosed(json_str)
  /\ \E r \in Lexing(json_str) :
       /\ r.kind = "string"
       /\ \E j \in (r.from + 1)..(r.to - 2) : json_str[j] = "/" /\ json_str[j + 1] \in {"/", "*"}
  /\ \E c \in Lexing(json_str) : c.kind # "string"
  /\ restripped = stripped
  /\ stripped # json_str

----------------------------------------------------------------------------
(* main.load_local_json on a JSONC text: a comment-free JSON text with      *)
(* // and /* */ comments put between its tokens is read, stripped and      *)
(* parsed.  The parse is modelled by the tokens json.loads reads: white    *)
(* space apart, two texts with the same tokens parse to the same value.    *)

MaxComments == 2

Invalid == <<"invalid">>

JsonWhitespace == {" ", Newline, "\t", "\r"}
JsonPunctuation == {"{", "}", "[", "]", ":", ","}
JsonEscapes == {Quote, Backslash, "/", "b", "f", "n", "r", "t"}
JsonWordChars == {"0", "1", "2", "-", "a", "e", "f", "l", "n", "r", "s", "t", "u"}

\* The position of the quote that closes a JSON string whose body starts at j
RECURSIVE json_string_end(_, _)
json_string_end(s, j) ==
  IF j > Len(s) THEN 0
  ELSE IF s[j] = Quote THEN j
  ELSE IF s[j] \in {Newline, "\t", "\r"} THEN 0
  ELSE IF s[j] = Backslash
    THEN (IF At(s, j + 1) \in JsonEscapes THEN json_string_end(s, j + 2) ELSE 0)
  ELSE json_string_end(s, j + 1)

\* The last position of the number or literal that starts at j
RECURSIVE json_word_end(_, _)
json_word_end(s, j) ==
  IF At(s, j + 1) \in JsonWordChars THEN json_word_end(s, j + 1) ELSE j

\* The tokens json.loads reads from position pos on; Invalid where it raises
RECURSIVE json_scan(_, _)
json_scan(s, pos) ==
  IF pos > Len(s) THEN <<>>
  ELSE IF s[pos] \in JsonWhitespace THEN json_scan(s, pos + 1)
  ELSE IF s[pos] \in JsonPunctuation THEN << <<s[pos]>> >> \o json_scan(s, pos + 1)
  ELSE IF s[pos] = Quote
    THEN LET e == json_string_end(s, pos + 1)
         IN  IF e = 0 THEN <<Invalid>>
             ELSE <<SubSeq(s, pos, e)>> \o json_scan(s, e + 1)
  ELSE IF s[pos] \in JsonWordChars
    THEN LET e == json_word_end(s, pos)
         IN  <<SubSeq(s, pos, e)>> \o json_scan(s, e + 1)
  ELSE <<Invalid>>

\* json.loads
json_loads(text) == json_scan(text, 1)

\* f.read(): the text of the pieces
RECURSIVE Flatten(_)
Flatten(ps) == IF ps = <<>> THEN <<>> ELSE Head(ps) \o Flatten(Tail(ps))

InsertAt(ps, gap, piece) ==
  SubSeq(ps, 1, gap) \o <<piece>> \o SubSeq(ps, gap + 1, Len(ps))

\* Comment-free JSON texts: those of the specification, and one whose
\* strings hold comment openers, closers and an escaped quote
JsonDocuments ==
  { << <<"{">>, <<"\"", "u", "r", "l", "\"">>, <<":">>, <<" ">>, <<"\"", "h", "t", "t", "p", ":", "/", "/", "x", "\"">>, <<"}">> >>,
    << <<"{">>, <<"\"", "a", "\"">>, <<":">>, <<"1">>, <<"}">> >>,
    << <<"[">>, <<"\"", "/", "*", "\"">>, <<",">>, <<"\"", "\\", "\"", "*", "/", "\"">>, <<"]">> >> }

LineCommentBodies == {<<>>, <<Quote>>, <<"/", "*">>}
BlockCommentBodies == {<<>>, <<Quote>>, <<"/", "/">>}

InitJsonc ==
  /\ document \in JsonDocuments
  /\ pieces = document
  /\ json_str = <<>>
  /\ stripped = <<>>
  /\ restripped = <<>>
  /\ parsed = <<>>
  /\ phase = "jsonc"
  /\ IdleTui
  /\ IdleCli

\* A // comment put in a gap between tokens; it runs to the end of its line,
\* or to the end of the text when it is put last
InsertLineComment(gap, body, eol) ==
  /\ phase = "jsonc"
  /\ Len(pieces) - Len(document) < MaxComments
  /\ eol \/ gap = Len(pieces)
  /\ pieces' = InsertAt(pieces, gap, <<"/", "/">> \o body \o (IF eol THEN <<Newline>> ELSE <<>>))
  /\ UNCHANGED <<json_str, stripped, restripped, document, parsed, phase>>
  /\ UNCHANGED tuiVars
  /\ UNCHANGED cliVars

\* A /* */ comment put in a gap between tokens
InsertBlockComment(gap, body) ==
  /\ phase = "jsonc"
  /\ Len(pieces) - Len(document) < MaxComments
  /\ pieces' = InsertAt(pieces, gap, <<"/", "*">> \o body \o <<"*", "/">>)
  /\ UNCHANGED <<json_str, stripped, restripped, document, parsed, phase>>
  /\ UNCHANGED tuiVars
  /\ UNCHANGED cliVars

\* load_local_json: read, strip, parse
LoadJson ==
  /\ phase = "jsonc"
  /\ json_str' = Flatten(pieces)
  /\ stripped' = strip_json_comments(json_str')
  /\ parsed' = json_loads(stripped')
  /\ phase' = "loaded"
  /\ UNCHANGED <<restripped, document, pieces>>
  /\ UNCHANGED tuiVars
  /\ UNCHANGED cliVars

NextJsonc ==
  \/ \E gap \in 0..Len(pieces), body \in LineCommentBodies, eol \in BOOLEAN :
       InsertLineComment(gap, body, eol)
  \/ \E gap \in 0..Len(pieces), body \in BlockCommentBodies :
       InsertBlockComment(gap, body)
  \/ LoadJson

SpecJsonc == InitJsonc /\ [][NextJsonc]_vars

\* C7: a comment-free JSON text with // and /* */ comments put between its
\* tokens, outside string literals, strips to valid JSON that parses to the
\* same document.
C7_StripGivesSameJson ==
  phase = "loaded" =>
    /\ parsed = json_loads(Flatten(document))
    /\ \A i \in 1..Len(parsed) : parsed[i] # Invalid

\* a text with a line comment and a block comment, both holding a quote,
\* around a string that holds //, has been loaded
C7_Witness ==
  /\ phase = "loaded"
  /\ \E i, j, k \in 1..Len(pieces) :
       /\ i < j /\ j < k
       /\ pieces[i] = <<"/", "*", Quote, "*", "/">>
       /\ pieces[j] = <<Quote, "h", "t", "t", "p", ":", "/", "/", "x", Quote>>
       /\ pieces[k] = <<"/", "/", Quote, Newline>>
  /\ Len(stripped) < Len(json_str)
  /\ parsed = json_loads(Flatten(document))

----------------------------------------------------------------------------
(* main.validate_policies: advisory warnings on a loaded document *)

\* isinstance(value, cls): bool is a subclass of int
isinstance(value, cls) == value.t = cls \/ (value.t = "bool" /\ cls = "int")

\* Expected types for known policies
expected_types ==
  << Item("BraveAIChatEnabled", "bool"),
     Item("BlockThirdPartyCookies", "bool"),
     Item("MetricsReportingEnabled", "bool"),
     Item("SyncDisabled", "bool"),
     Item("PasswordManagerEnabled", "bool"),
     Item("TranslateEnabled", "bool"),
     Item("SpellcheckEnabled", "bool"),
     Item("QuicAllowed", "bool"),
     Item("AutoplayAllowed", "bool"),
     Item("ComponentUpdatesEnabled", "bool"),
     Item("SafeBrowsingProtectionLevel", "int"),
     Item("HelpMeWriteSettings", "int"),
     Item("GeminiSettings", "int"),
     Item("GenAiDefaultSettings", "int"),
     Item("DefaultCookiesSetting", "int"),
     Item("DefaultGeolocationSetting", "int"),
     Item("DefaultNotificationsSetting", "int"),
     Item("BrowserSignin", "int"),
     Item("DiskCacheSize", "int"),
     Item("WebRtcIPHandling", "str"),
     Item("DnsOverHttpsMode", "str"),
     Item("CookiesSessionOnlyForUrls", "list") >>

\* f"'{key}' should be {expected_type.__name__}, got {type(value).__name__}"
TypeWarning(key, expected_type, value) ==
  <<key, "should be", expected_type, "got", value.t>>

NotObjectWarning == <<"Policies must be a JSON object">>
UpdatesWarning == <<"ComponentUpdatesEnabled=false may prevent security updates">>

\* d.get(k)
DictGetOrNone(d, k) == IF HasKey(d, k) THEN DictGet(d, k) ELSE PyNone

\* value == False, which 0 and 0.0 satisfy too
is_False_equal(value) == value = PyFalse \/ value = PyInt("0")

\* value is False
is_False(value) == value = PyFalse

validate_policies(policies_arg) ==
  IF ~isinstance(policies_arg, "dict") THEN <<NotObjectWarning>>
  ELSE
    LET d == policies_arg.v
        mistyped == SelectSeq(expected_types,
                      LAMBDA e : HasKey(d, e.k) /\ ~isinstance(DictGet(d, e.k), e.v))
        type_warnings == [i \in 1..Len(mistyped) |->
                            TypeWarning(mistyped[i].k, mistyped[i].v, DictGet(d, mistyped[i].k))]
        dangerous == IF is_False(DictGetOrNone(d, "ComponentUpdatesEnabled"))
                       THEN <<UpdatesWarning>> ELSE <<>>
    IN  type_warnings \o dangerous

\* The documents validated: every dict of at most MaxKeys of these keys (two
\* of the boolean kind, two of the integer kind, one string, one list, one
\* the table does not know) with these values, and two that are no dict
MaxKeys == 2

InputKeys ==
  <<"ComponentUpdatesEnabled", "BraveAIChatEnabled", "SafeBrowsingProtectionLevel",
    "DiskCacheSize", "WebRtcIPHandling", "CookiesSessionOnlyForUrls", "HomepageLocation">>

InputValues == {PyTrue, PyFalse, PyInt("0"), PyStr("false"), PyNone, PyList(<<>>)}

DictOf(S, f) ==
  LET ks == SelectSeq(InputKeys, LAMBDA k : k \in S)
  IN  PyDict([i \in 1..Len(ks) |-> Item(ks[i], f[ks[i]])])

InputDicts ==
  LET all == {InputKeys[i] : i \in 1..Len(InputKeys)}
  IN  UNION { {DictOf(S, f) : f \in [S -> InputValues]} :
                S \in {T \in SUBSET all : Cardinality(T) <= MaxKeys} }

InputDocuments == InputDicts \cup {PyList(<<>>), PyStr("not a dict")}

IdleFiles ==
  /\ fs = <<>>
  /\ parent_exists = FALSE
  /\ clock = 0
  /\ ret = PyNone
  /\ log = <<>>
  /\ made = PyNone

IdleMain ==
  /\ args = <<>>
  /\ pc = "idle"
  /\ exit_code = PyNone
  /\ env = <<>>
  /\ started = <<>>

InitValidate ==
  /\ loaded \in InputDocuments
  /\ warnings = <<>>
  /\ phase = "validate"
  /\ IdleFiles
  /\ IdleMain
  /\ IdleTui
  /\ IdleJson

Validate ==
  /\ phase = "validate"
  /\ warnings' = validate_policies(loaded)
  /\ phase' = "validated"
  /\ UNCHANGED <<loaded, fs, parent_exists, clock, ret, log, args, pc, exit_code, env, started, made>>
  /\ UNCHANGED tuiVars
  /\ UNCHANGED jsonVars

NextValidate == Validate

SpecValidate == InitValidate /\ [][NextValidate]_vars

Warned(key) == \E i \in 1..Len(warnings) : warnings[i][1] = key /\ Len(warnings[i]) = 5

\* C11: for every key of the type table that the document has, a type
\* warning for the key is emitted if and only if the kind of its value
\* (bool, int, str, list, ...) differs from the declared kind; so a boolean
\* under an integer key is reported.
C11_TypeWarningIffKindDiffers ==
  (phase = "validated" /\ loaded.t = "dict") =>
    \A i \in 1..Len(expected_types) :
      LET key == expected_types[i].k
      IN  HasKey(loaded.v, key) =>
            (Warned(key) <=> DictGet(loaded.v, key).t # expected_types[i].v)

Count(seq, x) == Cardinality({i \in 1..Len(seq) : seq[i] = x})

\* C12: the update-safety advisory is emitted exactly once when
\* ComponentUpdatesEnabled is present with the boolean false, never when the
\* key is absent or holds anything else; for {ComponentUpdatesEnabled: false}
\* it is the only warning.
C12_AdvisoryIffUpdatesFalse ==
  phase = "validated" =>
    /\ Count(warnings, UpdatesWarning) =
         (IF /\ loaded.t = "dict"
             /\ HasKey(loaded.v, "ComponentUpdatesEnabled")
             /\ DictGet(loaded.v, "ComponentUpdatesEnabled") = PyFalse
          THEN 1 ELSE 0)
    /\ loaded = PyDict(<<Item("ComponentUpdatesEnabled", PyFalse)>>)
         => warnings = <<UpdatesWarning>>

\* the advisory follows a type warning of another key
C12_Witness ==
  /\ phase = "validated"
  /\ loaded = PyDict(<<Item("ComponentUpdatesEnabled", PyFalse),
                       Item("WebRtcIPHandling", PyInt("0"))>>)
  /\ warnings = <<TypeWarning("WebRtcIPHandling", "str", PyInt("0")), UpdatesWarning>>

----------------------------------------------------------------------------
(* The backup store of main.py: create_backup, find_latest_backup,         *)
(* restore_backup and write_json on the files of the target's directory.   *)
(* A file name is a text; fs maps the names of the files that exist to     *)
(* their content.  The operations are taken to be permitted by the         *)
(* operating system.                                                       *)

\* The characters of file names, in code point order
CodePoints ==
  <<".", "0", "1", "2", "3", "4", "5", "6", "7", "8", "9", "_",
    "a", "b", "c", "e", "f", "i", "j", "k", "l", "n", "o", "p", "r", "s", "u">>

ord(c) == CHOOSE i \in 1..Len(CodePoints) : CodePoints[i] = c

\* a < b on str
RECURSIVE StrLess(_, _)
StrLess(a, b) ==
  IF b = <<>> THEN FALSE
  ELSE IF a = <<>> THEN TRUE
  ELSE IF a[1] = b[1] THEN StrLess(Tail(a), Tail(b))
  ELSE ord(a[1]) < ord(b[1])

Path(name) == [t |-> "Path", v |-> name]

\* get_policy_path(): the file policies.json of the managed policy directory
target_path == Path(<<"p", "o", "l", "i", "c", "i", "e", "s", ".", "j", "s", "o", "n">>)

\* The position of the dot that starts the suffix of a name, 0 without one
SuffixDot(name) ==
  LET dots == {i \in 2..(Len(name) - 1) : name[i] = "."}
  IN  IF dots = {} THEN 0 ELSE CHOOSE i \in dots : \A j \in dots : j <= i

\* path.stem
stem(path) ==
  IF SuffixDot(path.v) = 0 THEN path.v ELSE SubSeq(path.v, 1, SuffixDot(path.v) - 1)

\* path.with_suffix(suffix)
with_suffix(path, suffix) == Path(stem(path) \o suffix)

Digits == <<"0", "1", "2", "3", "4", "5", "6", "7", "8", "9">>

\* %d, %H, %M, %S: two digits, zero padded
TwoDigits(n) == <<Digits[(n \div 10) + 1], Digits[(n % 10) + 1]>>

\* the same without the padding
Unpadded(n) == IF n < 10 THEN <<Digits[n + 1]>> ELSE TwoDigits(n)

SecondsPerDay == 86400

\* strftime with a format that does not pad
strftime_unpadded(now) ==
  LET day == now \div SecondsPerDay
      sec == now % SecondsPerDay
  IN  <<"2", "0", "2", "4">> \o <<"0", "1">> \o Unpadded(day + 1) \o <<"_">>
        \o Unpadded(sec \div 3600) \o Unpadded((sec % 3600) \div 60) \o Unpadded(sec % 60)

\* datetime.now().strftime("%Y%m%d_%H%M%S"), the clock counting the seconds
\* from 2024-01-01 00:00:00
strftime(now) ==
  LET day == now \div SecondsPerDay
      sec == now % SecondsPerDay
  IN  <<"2", "0", "2", "4">> \o <<"0", "1">> \o TwoDigits(day + 1) \o <<"_">>
        \o TwoDigits(sec \div 3600) \o TwoDigits((sec % 3600) \div 60) \o TwoDigits(sec % 60)

BackupInfix == <<".", "b", "a", "c", "k", "u", "p", "_">>

StartsWith(name, prefix) ==
  Len(name) >= Len(prefix) /\ SubSeq(name, 1, Len(prefix)) = prefix

\* path.parent.glob(f"{path.stem}.backup_*")
glob(files, path) ==
  {n \in DOMAIN files : StartsWith(n, stem(path) \o BackupInfix)}

\* sorted(names, reverse=True)
RECURSIVE sorted_reverse(_)
sorted_reverse(names) ==
  IF names = {} THEN <<>>
  ELSE LET top == CHOOSE n \in names : \A m \in names : m = n \/ StrLess(m, n)
       IN  <<top>> \o sorted_reverse(names \ {top})

\* shutil.copy2(src, dst)
copy2(files, src, dst) ==
  [n \in DOMAIN files \cup {dst} |-> IF n = dst THEN files[src] ELSE files[n]]

\* shutil.move(src, dst)
move(files, src, dst) ==
  [n \in (DOMAIN files \cup {dst}) \ {src} |-> IF n = dst THEN files[src] ELSE files[n]]

\* path.exists()
exists(files, path) == path.v \in DOMAIN files

Report(level, message) == <<level, message>>

\* A backup that takes the file away instead of copying it
create_backup_move(files, now, path) ==
  IF ~exists(files, path)
    THEN [fs |-> files, ret |-> PyNone,
          log |-> <<Report("info", "No existing policies file to backup")>>]
    ELSE LET backup_path == with_suffix(path, BackupInfix \o strftime(now))
         IN  [fs |-> move(files, path.v, backup_path.v), ret |-> backup_path,
              log |-> <<Report("info", "Backup created")>>]

create_backup(files, now, path) ==
  IF ~exists(files, path)
    THEN [fs |-> files, ret |-> PyNone,
          log |-> <<Report("info", "No existing policies file to backup")>>]
    ELSE LET backup_path == with_suffix(path, BackupInfix \o strftime(now))
         IN  [fs |-> copy2(files, path.v, backup_path.v), ret |-> backup_path,
              log |-> <<Report("info", "Backup created")>>]

\* A search that takes the first name instead of the last
find_latest_backup_first(files, path) ==
  LET backups == sorted_reverse(glob(files, path))
  IN  IF backups # <<>> THEN Path(backups[Len(backups)]) ELSE PyNone

find_latest_backup(files, path) ==
  LET backups == sorted_reverse(glob(files, path))
  IN  IF backups # <<>> THEN Path(backups[1]) ELSE PyNone

\* A restore that reports success whatever it found
restore_backup_quiet(files, path) ==
  LET backup == find_latest_backup(files, path)
  IN  IF backup = PyNone
        THEN [fs |-> files, ret |-> PyTrue, log |-> <<>>]
        ELSE [fs |-> copy2(files, backup.v, path.v), ret |-> PyTrue,
              log |-> <<Report("info", "Restored from")>>]

\* A restore that moves the backup into place
restore_backup_move(files, path) ==
  LET backup == find_latest_backup(files, path)
  IN  IF backup = PyNone
        THEN [fs |-> files, ret |-> PyFalse,
              log |-> <<Report("error", "No backup found to restore")>>]
        ELSE [fs |-> move(files, backup.v, path.v), ret |-> PyTrue,
              log |-> <<Report("info", "Restored from")>>]

restore_backup(files, path) ==
  LET backup == find_latest_backup(files, path)
  IN  IF backup = PyNone
        THEN [fs |-> files, ret |-> PyFalse,
              log |-> <<Report("error", "No backup found to restore")>>]
        ELSE [fs |-> copy2(files, backup.v, path.v), ret |-> PyTrue,
              log |-> <<Report("info", "Restored from")>>]

\* json.dump(data, f, indent=2, ensure_ascii=False): the text of data
json_dump(data) == [json |-> data, indent |-> 2, ensure_ascii |-> FALSE]

\* A write that makes the directory before it looks at dry_run
write_json_eager(files, dir, path, data, dry_run) ==
  IF dry_run
    THEN [fs |-> files, parent_exists |-> TRUE,
          log |-> <<Report("info", "[DRY-RUN] Would write to"),
                    Report("info", "[DRY-RUN] Content preview")>>]
    ELSE [fs |-> [n \in DOMAIN files \cup {path.v} |->
                    IF n = path.v THEN json_dump(data) ELSE files[n]],
          parent_exists |-> TRUE,
          log |-> <<Report("info", "Policies written to")>>]

\* write_json, ensure_dir included
write_json(files, dir, path, data, dry_run) ==
  IF dry_run
    THEN [fs |-> files, parent_exists |-> dir,
          log |-> <<Report("info", "[DRY-RUN] Would write to"),
                    Report("info", "[DRY-RUN] Content preview")>>]
    ELSE [fs |-> [n \in DOMAIN files \cup {path.v} |->
                    IF n = path.v THEN json_dump(data) ELSE files[n]],
          parent_exists |-> TRUE,
          log |-> <<Report("info", "Policies written to")>>]

----------------------------------------------------------------------------
(* The backup store driven call by call *)

MaxBackups == 2

\* The instants calls are made at: around the turn of a ten, a minute and
\* a day, where the width of the stamp's fields matters
ClockTicks == {9, 10, 59, 60, 86399, 86400}

\* What a file holds whose text no write_json of the run made
RawText(chars) == [text |-> chars]

OldText == RawText(<<"o", "l", "d">>)
OlderText == RawText(<<"o", "l", "d", "e", "r">>)

\* A backup left by a create_backup call of the year before
EarlierBackup == <<"p", "o", "l", "i", "c", "i", "e", "s", ".", "b", "a", "c", "k", "u", "p", "_", "2", "0", "2", "3", "1", "2", "3", "1", "_", "2", "3", "5", "9", "5", "9">>

\* A file of the directory that is no backup of the target
Neighbour == <<"p", "o", "l", "i", "c", "i", "e", "s", ".", "b", "a", "k">>

WriteDocuments ==
  {PyDict(<<>>), PyDict(<<Item("ComponentUpdatesEnabled", PyFalse)>>)}

\* The directory as a run can find it: missing; without the target; with
\* the target; and each of the two with a backup of an earlier call
InitialFiles ==
  LET none == (Neighbour :> OlderText)
      target == (target_path.v :> OldText)
      backup == (EarlierBackup :> OlderText)
  IN  {none, none @@ target, none @@ backup, none @@ target @@ backup}

InitFiles ==
  /\ parent_exists \in BOOLEAN
  /\ fs \in (IF parent_exists THEN InitialFiles ELSE {<<>>})
  /\ made = (IF EarlierBackup \in DOMAIN fs THEN Path(EarlierBackup) ELSE PyNone)
  /\ clock \in {t \in ClockTicks : t <= 10}
  /\ ret = PyNone
  /\ log = <<>>
  /\ loaded = PyNone
  /\ warnings = <<>>
  /\ phase = "files"
  /\ IdleMain
  /\ IdleTui
  /\ IdleJson

FilesFrame ==
  /\ UNCHANGED <<loaded, warnings, args, pc, exit_code, env, started>>
  /\ UNCHANGED tuiVars
  /\ UNCHANGED jsonVars

\* Time passes: the clock never goes back
Tick ==
  /\ \E t \in ClockTicks : t > clock /\ clock' = t
  /\ phase' = "tick"
  /\ UNCHANGED <<fs, parent_exists, ret, log, made>>
  /\ FilesFrame

CreateBackup ==
  /\ Cardinality(glob(fs, target_path)) < MaxBackups
       \/ with_suffix(target_path, BackupInfix \o strftime(clock)).v \in DOMAIN fs
  /\ LET r == create_backup(fs, clock, target_path)
     IN  /\ fs' = r.fs
         /\ ret' = r.ret
         /\ log' = r.log
         /\ made' = (IF r.ret = PyNone THEN made ELSE r.ret)
  /\ phase' = "create_backup"
  /\ UNCHANGED <<parent_exists, clock>>
  /\ FilesFrame

FindLatestBackup ==
  /\ ret' = find_latest_backup(fs, target_path)
  /\ log' = <<>>
  /\ phase' = "find_latest_backup"
  /\ UNCHANGED <<fs, parent_exists, clock, made>>
  /\ FilesFrame

RestoreBackup ==
  /\ LET r == restore_backup(fs, target_path)
     IN  /\ fs' = r.fs
         /\ ret' = r.ret
         /\ log' = r.log
  /\ phase' = "restore_backup"
  /\ UNCHANGED <<parent_exists, clock, made>>
  /\ FilesFrame

WriteJson(data, dry_run) ==
  /\ LET r == write_json(fs, parent_exists, target_path, data, dry_run)
     IN  /\ fs' = r.fs
         /\ parent_exists' = r.parent_exists
         /\ log' = r.log
  /\ ret' = PyNone
  /\ phase' = (IF dry_run THEN "write_json dry_run" ELSE "write_json")
  /\ UNCHANGED <<clock, made>>
  /\ FilesFrame

NextFiles ==
  \/ Tick
  \/ CreateBackup
  \/ FindLatestBackup
  \/ RestoreBackup
  \/ \E data \in WriteDocuments, dry_run \in BOOLEAN : WriteJson(data, dry_run)

SpecFiles == InitFiles /\ [][NextFiles]_vars

IsDigit(c) == \E i \in 1..Len(Digits) : Digits[i] = c

\* YYYYMMDD_HHMMSS
IsStamp(t) ==
  /\ Len(t) = 15
  /\ t[9] = "_"
  /\ \A i \in (1..15) \ {9} : IsDigit(t[i])

\* C13: when the target exists, create_backup makes a sibling file named
\* <target-stem>.backup_<YYYYMMDD_HHMMSS> whose content is the target's
\* content at the call, returns that path, and leaves the target's content
\* as it was.
C13_BackupCopiesTarget ==
  [][(phase' = "create_backup" /\ target_path.v \in DOMAIN fs) =>
       /\ ret'.t = "Path"
       /\ StartsWith(ret'.v, <<"p", "o", "l", "i", "c", "i", "e", "s">> \o BackupInfix)
       /\ IsStamp(SubSeq(ret'.v, Len(<<"p", "o", "l", "i", "c", "i", "e", "s">> \o BackupInfix) + 1, Len(ret'.v)))
       /\ ret'.v \in DOMAIN fs'
       /\ fs'[ret'.v] = fs[target_path.v]
       /\ target_path.v \in DOMAIN fs'
       /\ fs'[target_path.v] = fs[target_path.v]]_vars

\* a backup of a written document has been made next to an earlier one
C13_Witness ==
  /\ phase = "create_backup"
  /\ ret # PyNone
  /\ fs[ret.v] = json_dump(PyDict(<<Item("ComponentUpdatesEnabled", PyFalse)>>))
  /\ fs[target_path.v] = fs[ret.v]
  /\ Cardinality(glob(fs, target_path)) = 2

\* The name of a file that the most recent create_backup call wrote
Greatest(names) == CHOOSE n \in names : \A m \in names : m = n \/ StrLess(m, n)

\* C14: after any sequence of create_backup calls under a clock that never
\* goes back, find_latest_backup returns the backup the most recent call
\* wrote, which is the greatest backup name, and none when no backup of the
\* target's stem exists.
C14_LatestIsMostRecent ==
  phase = "find_latest_backup" =>
    LET names == {n \in DOMAIN fs : StartsWith(n, <<"p", "o", "l", "i", "c", "i", "e", "s">> \o BackupInfix)}
    IN  IF names = {} THEN ret = PyNone
        ELSE ret = made /\ ret = Path(Greatest(names))

\* the latest of two backups made in this run, the second after the turn of
\* a ten, has been found
C14_Witness ==
  /\ phase = "find_latest_backup"
  /\ ret = made
  /\ ret # Path(EarlierBackup)
  /\ clock >= 10
  /\ \E n \in DOMAIN fs :
       /\ StartsWith(n, <<"p", "o", "l", "i", "c", "i", "e", "s">> \o BackupInfix)
       /\ n # EarlierBackup
       /\ n # ret.v

NoBackup(files) == \A n \in DOMAIN files : ~StartsWith(n, <<"p", "o", "l", "i", "c", "i", "e", "s">> \o BackupInfix)

\* C15: restore_backup with no backup of the target fails as not found: the
\* failure is reported to the caller (False, and an error through the log),
\* nothing is copied, and the target, present or absent, and every other
\* file are as before.
C15_RestoreWithoutBackupFails ==
  [][(phase' = "restore_backup" /\ NoBackup(fs)) =>
       /\ ret' = PyFalse
       /\ \E i \in 1..Len(log') : log'[i][1] = "error"
       /\ fs' = fs
       /\ parent_exists' = parent_exists]_vars

\* a restore has failed on a written target without a backup
C15_Witness ==
  /\ phase = "restore_backup"
  /\ ret = PyFalse
  /\ NoBackup(fs)
  /\ target_path.v \in DOMAIN fs
  /\ fs[target_path.v] # OldText

\* C16: restore_backup with at least one backup leaves the target with the
\* content of the backup find_latest_backup selects, whatever the target
\* held, also when it did not exist; it returns success and leaves every
\* backup file as it was.
C16_RestoreCopiesLatest ==
  [][(phase' = "restore_backup" /\ ~NoBackup(fs)) =>
       /\ ret' = PyTrue
       /\ target_path.v \in DOMAIN fs'
       /\ fs'[target_path.v] = fs[find_latest_backup(fs, target_path).v]
       /\ \A n \in DOMAIN fs : StartsWith(n, <<"p", "o", "l", "i", "c", "i", "e", "s">> \o BackupInfix) =>
            (n \in DOMAIN fs' /\ fs'[n] = fs[n])
       /\ {n \in DOMAIN fs' : StartsWith(n, <<"p", "o", "l", "i", "c", "i", "e", "s">> \o BackupInfix)}
            = {n \in DOMAIN fs : StartsWith(n, <<"p", "o", "l", "i", "c", "i", "e", "s">> \o BackupInfix)}]_vars

\* a restore has brought back the old text over a written document, with
\* two backups to choose from
C16_Witness ==
  /\ phase = "restore_backup"
  /\ ret = PyTrue
  /\ made # PyNone
  /\ made.v # EarlierBackup
  /\ EarlierBackup \in DOMAIN fs
  /\ fs[target_path.v] = OldText
  /\ fs[made.v] = OldText

\* C17: write_json with dry_run true changes nothing on the file system:
\* the target, its directory and the backups are after the call what they
\* were before it, for every document.
C17_DryRunWritesNothing ==
  [][phase' = "write_json dry_run" => (fs' = fs /\ parent_exists' = parent_exists)]_vars

\* a dry run has left the directory missing
C17_Witness ==
  /\ phase = "write_json dry_run"
  /\ ~parent_exists
  /\ fs = <<>>
  /\ Len(log) = 2

----------------------------------------------------------------------------
(* json.loads, from the tokens to the Python value *)

\* The names the model writes as TLA+ strings, with their spelling
Spelling ==
  << Item("ComponentUpdatesEnabled", <<"C", "o", "m", "p", "o", "n", "e", "n", "t", "U", "p", "d", "a", "t", "e", "s", "E", "n", "a", "b", "l", "e", "d">>),
     Item("true", <<"t", "r", "u", "e">>),
     Item("false", <<"f", "a", "l", "s", "e">>),
     Item("null", <<"n", "u", "l", "l">>),
     Item("0", <<"0">>),
     Item("1", <<"1">>),
     Item("2", <<"2">>),
     Item("a", <<"a">>) >>

\* The TLA+ string spelled by the characters; the characters themselves
\* when the model has no name for them
Intern(chars) ==
  IF \E i \in 1..Len(Spelling) : Spelling[i].v = chars
    THEN Spelling[CHOOSE i \in 1..Len(Spelling) : Spelling[i].v = chars].k
    ELSE chars

\* The characters of a string body, escapes resolved
RECURSIVE unescape(_)
unescape(body) ==
  IF body = <<>> THEN <<>>
  ELSE IF body[1] = Backslash /\ Len(body) >= 2
    THEN <<(IF body[2] = "n" THEN Newline ELSE body[2])>> \o unescape(SubSeq(body, 3, Len(body)))
  ELSE <<body[1]>> \o unescape(Tail(body))

\* The str of a string token
StringOf(token) == Intern(unescape(SubSeq(token, 2, Len(token) - 1)))

IsNumber(token) ==
  LET digits == IF token[1] = "-" THEN Tail(token) ELSE token
  IN  /\ digits # <<>>
      /\ \A i \in 1..Len(digits) : IsDigit(digits[i])
      /\ Len(digits) > 1 => digits[1] # "0"

ParseError == [ok |-> FALSE]
Parsed(val, next) == [ok |-> TRUE, val |-> val, next |-> next]

RECURSIVE parse_value(_, _)
RECURSIVE parse_object(_, _, _)
RECURSIVE parse_array(_, _, _)

\* The members of an object from token i on, after those of acc
parse_object(toks, i, acc) ==
  IF i + 1 > Len(toks) \/ toks[i][1] # Quote \/ toks[i + 1] # <<":">> THEN ParseError
  ELSE LET member == parse_value(toks, i + 2)
       IN  IF ~member.ok \/ member.next > Len(toks) THEN ParseError
           ELSE LET pairs == DictSet(acc, StringOf(toks[i]), member.val)
                IN  IF toks[member.next] = <<",">>
                      THEN parse_object(toks, member.next + 1, pairs)
                    ELSE IF toks[member.next] = <<"}">>
                      THEN Parsed(PyDict(pairs), member.next + 1)
                    ELSE ParseError

\* The elements of an array from token i on, after those of acc
parse_array(toks, i, acc) ==
  LET element == parse_value(toks, i)
  IN  IF ~element.ok \/ element.next > Len(toks) THEN ParseError
      ELSE IF toks[element.next] = <<",">>
        THEN parse_array(toks, element.next + 1, Append(acc, element.val))
      ELSE IF toks[element.next] = <<"]">>
        THEN Parsed(PyList(Append(acc, element.val)), element.next + 1)
      ELSE ParseError

\* The value that starts at token i
parse_value(toks, i) ==
  IF i > Len(toks) \/ toks[i] = Invalid THEN ParseError
  ELSE IF toks[i] = <<"{">>
    THEN (IF i + 1 <= Len(toks) /\ toks[i + 1] = <<"}">>
            THEN Parsed(PyDict(<<>>), i + 2)
            ELSE parse_object(toks, i + 1, <<>>))
  ELSE IF toks[i] = <<"[">>
    THEN (IF i + 1 <= Len(toks) /\ toks[i + 1] = <<"]">>
            THEN Parsed(PyList(<<>>), i + 2)
            ELSE parse_array(toks, i + 1, <<>>))
  ELSE IF toks[i][1] = Quote THEN Parsed(PyStr(StringOf(toks[i])), i + 1)
  ELSE IF toks[i] = Spelling[2].v THEN Parsed(PyTrue, i + 1)
  ELSE IF toks[i] = Spelling[3].v THEN Parsed(PyFalse, i + 1)
  ELSE IF toks[i] = Spelling[4].v THEN Parsed(PyNone, i + 1)
  ELSE IF IsNumber(toks[i]) THEN Parsed(PyInt(Intern(toks[i])), i + 1)
  ELSE ParseError

\* json.loads(text): the value, or ParseError where it raises JSONDecodeError
json_loads_value(text) ==
  LET toks == json_loads(text)
      top == parse_value(toks, 1)
  IN  IF top.ok /\ top.next = Len(toks) + 1 THEN top ELSE ParseError

----------------------------------------------------------------------------
(* main: one run of the command line *)

\* The texts a run reads, from the file of --local or from SOURCE_URL: an
\* object that draws the advisory, one with a comment that draws nothing,
\* an array, and two that are malformed, the second after stripping
InputTexts ==
  { <<"{", "\"", "C", "o", "m", "p", "o", "n", "e", "n", "t", "U", "p", "d", "a", "t", "e", "s", "E", "n", "a", "b", "l", "e", "d", "\"", ":", " ", "f", "a", "l", "s", "e", "}">>,
    <<"{", "\"", "C", "o", "m", "p", "o", "n", "e", "n", "t", "U", "p", "d", "a", "t", "e", "s", "E", "n", "a", "b", "l", "e", "d", "\"", ":", " ", "t", "r", "u", "e", "}", "/", "/", "c", "\n">>,
    <<"[", "1", "]">>,
    <<"{", "\"", "a", "\"", ":", "1">>,
    <<"{", "\"", "a", "\"", ":", "1", "}", "/", "*", "x">> }

LocalInputs == {[kind |-> "missing"]} \cup {[kind |-> "text", text |-> t] : t \in InputTexts}
RemoteInputs ==
  {[kind |-> "URLError"], [kind |-> "status", status |-> 404]}
    \cup {[kind |-> "text", text |-> t] : t \in InputTexts}

Raise(exception) == [raised |-> exception]
Return(value) == [raised |-> "", value |-> value]

\* load_local_json(args.local)
load_local_json(input) ==
  IF input.kind = "missing" THEN Raise("RuntimeError")
  ELSE LET result == json_loads_value(strip_json_comments(input.text))
       IN  IF result.ok THEN Return(result.val) ELSE Raise("RuntimeError")

\* download_json(SOURCE_URL)
download_json(input) ==
  IF input.kind = "URLError" THEN Raise("RuntimeError")
  ELSE IF input.kind = "status" /\ input.status # 200 THEN Raise("RuntimeError")
  ELSE LET result == json_loads_value(strip_json_comments(input.text))
       IN  IF result.ok THEN Return(result.val) ELSE Raise("RuntimeError")

Arguments ==
  [dry_run : BOOLEAN, backup : BOOLEAN, restore : BOOLEAN, local : BOOLEAN,
   skip_checks : BOOLEAN]

FlatpakOutcomes == {"no flatpak", "declined", "granted", "override failed"}

InitMain ==
  /\ args \in Arguments
  /\ env \in [root : BOOLEAN, input : LocalInputs \cup RemoteInputs, flatpak : FlatpakOutcomes]
  /\ env.input \in (IF args.local THEN LocalInputs ELSE RemoteInputs)
  /\ args.restore => (env.input.kind \in {"missing", "URLError"} /\ env.flatpak = "no flatpak")
  /\ parent_exists \in BOOLEAN
  /\ fs \in (IF parent_exists THEN InitialFiles ELSE {<<>>})
  /\ made = (IF EarlierBackup \in DOMAIN fs THEN Path(EarlierBackup) ELSE PyNone)
  /\ started = [fs |-> fs, parent_exists |-> parent_exists]
  /\ clock \in {t \in ClockTicks : t <= 10}
  /\ ret = PyNone
  /\ log = <<>>
  /\ loaded = PyNone
  /\ warnings = <<>>
  /\ exit_code = PyNone
  /\ pc = "start"
  /\ phase = "main"
  /\ IdleTui
  /\ IdleJson

MainFrame ==
  /\ UNCHANGED <<args, env, started, clock, phase>>
  /\ UNCHANGED tuiVars
  /\ UNCHANGED jsonVars

Exit(code, reports) ==
  /\ exit_code' = PyInt(code)
  /\ log' = log \o reports
  /\ pc' = "done"

NoRoot == ~args.skip_checks /\ ~env.root

\* Handle restore mode
MainRestore ==
  /\ pc = "start"
  /\ args.restore
  /\ IF NoRoot
       THEN /\ Exit("1", <<Report("error", "Insufficient permissions")>>)
            /\ UNCHANGED <<fs, ret>>
       ELSE LET r == restore_backup(fs, target_path)
            IN  /\ fs' = r.fs
                /\ ret' = r.ret
                /\ IF r.ret = PyTrue
                     THEN Exit("0", r.log \o <<Report("info", "Backup restored successfully!")>>)
                     ELSE Exit("1", r.log)
  /\ UNCHANGED <<loaded, warnings, parent_exists, made>>
  /\ MainFrame

\* Pre-flight checks
MainChecks ==
  /\ pc = "start"
  /\ ~args.restore
  /\ IF NoRoot
       THEN Exit("1", <<Report("error", "Insufficient permissions")>>)
       ELSE /\ pc' = "load"
            /\ UNCHANGED <<exit_code, log>>
  /\ UNCHANGED <<loaded, warnings, fs, parent_exists, ret, made>>
  /\ MainFrame

\* A load that goes on with an empty document when the input cannot be read
MainLoad_lenient ==
  /\ pc = "load"
  /\ LET result == IF args.local THEN load_local_json(env.input)
                                 ELSE download_json(env.input)
     IN  /\ loaded' = (IF result.raised # "" THEN PyDict(<<>>) ELSE result.value)
         /\ pc' = "validate"
         /\ UNCHANGED <<exit_code, log>>
  /\ UNCHANGED <<warnings, fs, parent_exists, ret, made>>
  /\ MainFrame

\* Load policies
MainLoad ==
  /\ pc = "load"
  /\ LET result == IF args.local THEN load_local_json(env.input)
                                 ELSE download_json(env.input)
     IN  IF result.raised # ""
           THEN /\ Exit("1", <<Report("error", result.raised)>>)
                /\ UNCHANGED loaded
           ELSE /\ loaded' = result.value
                /\ pc' = "validate"
                /\ UNCHANGED <<exit_code, log>>
  /\ UNCHANGED <<warnings, fs, parent_exists, ret, made>>
  /\ MainFrame

WarningReports(ws) == [i \in 1..Len(ws) |-> Report("warning", ws[i])]

\* A validation that refuses a document with warnings
MainValidate_strict ==
  /\ pc = "validate"
  /\ warnings' = validate_policies(loaded)
  /\ IF warnings' # <<>>
       THEN Exit("1", WarningReports(warnings'))
       ELSE /\ pc' = "backup"
            /\ UNCHANGED <<exit_code, log>>
  /\ UNCHANGED <<loaded, fs, parent_exists, ret, made>>
  /\ MainFrame

\* Validate policies
MainValidate ==
  /\ pc = "validate"
  /\ warnings' = validate_policies(loaded)
  /\ log' = log \o WarningReports(warnings')
  /\ pc' = "backup"
  /\ UNCHANGED <<loaded, exit_code, fs, parent_exists, ret, made>>
  /\ MainFrame

\* A backup step that comes after the write: the new document is on disk
\* when the copy is taken
MainBackup_after ==
  /\ pc = "backup"
  /\ IF args.backup /\ ~args.dry_run
       THEN LET w == write_json(fs, parent_exists, target_path, loaded, FALSE)
                r == create_backup(w.fs, clock, target_path)
            IN  /\ fs' = r.fs
                /\ ret' = r.ret
                /\ log' = log \o r.log
                /\ made' = (IF r.ret = PyNone THEN made ELSE r.ret)
       ELSE UNCHANGED <<fs, ret, log, made>>
  /\ pc' = "write"
  /\ UNCHANGED <<loaded, warnings, exit_code, parent_exists>>
  /\ MainFrame

\* Create backup if requested
MainBackup ==
  /\ pc = "backup"
  /\ IF args.backup /\ ~args.dry_run
       THEN LET r == create_backup(fs, clock, target_path)
            IN  /\ fs' = r.fs
                /\ ret' = r.ret
                /\ log' = log \o r.log
                /\ made' = (IF r.ret = PyNone THEN made ELSE r.ret)
       ELSE UNCHANGED <<fs, ret, log, made>>
  /\ pc' = "write"
  /\ UNCHANGED <<loaded, warnings, exit_code, parent_exists>>
  /\ MainFrame

\* Write policies
MainWrite ==
  /\ pc = "write"
  /\ LET r == write_json(fs, parent_exists, target_path, loaded, args.dry_run)
     IN  /\ fs' = r.fs
         /\ parent_exists' = r.parent_exists
         /\ log' = log \o r.log
  /\ pc' = "flatpak"
  /\ UNCHANGED <<loaded, warnings, exit_code, ret, made>>
  /\ MainFrame

\* Flatpak support, and the end of the run
MainFlatpak ==
  /\ pc = "flatpak"
  /\ IF env.flatpak = "override failed"
       THEN Exit("1", <<Report("info", "Brave is installed as a Flatpak."),
                        Report("error", "Unexpected error")>>)
       ELSE Exit("0",
              (IF env.flatpak = "granted"
                 THEN <<Report("info", "Flatpak permission granted.")>>
               ELSE IF env.flatpak = "declined"
                 THEN <<Report("warning", "Brave Flatpak will not read system policies.")>>
               ELSE <<>>)
              \o (IF ~args.dry_run
                    THEN <<Report("info", "Policies applied successfully!")>>
                    ELSE <<>>))
  /\ UNCHANGED <<loaded, warnings, fs, parent_exists, ret, made>>
  /\ MainFrame

NextMain ==
  \/ MainRestore
  \/ MainChecks
  \/ MainLoad
  \/ MainValidate
  \/ MainBackup
  \/ MainWrite
  \/ MainFlatpak

SpecMain == InitMain /\ [][NextMain]_vars

\* C18: a run with --dry-run makes no changes: whatever the other flags,
\* the target file and the set and contents of the backup files are when
\* main returns what they were when it started.
C18_DryRunChangesNothing ==
  (pc = "done" /\ args.dry_run) =>
    (fs = started.fs /\ parent_exists = started.parent_exists)

\* C19: in a run without --restore the validator's warnings never block the
\* write: once the document is loaded, main goes from validation on to the
\* write step and writes that document, with no warning or with any.
C19_WarningsNeverBlock ==
  /\ [](pc \in {"validate", "backup", "write"} => ENABLED <<NextMain>>_vars)
  /\ [][/\ pc = "validate" => (pc' = "backup" /\ loaded' = loaded)
        /\ pc = "backup" => (pc' = "write" /\ loaded' = loaded)
        /\ pc = "write" =>
             /\ pc' = "flatpak"
             /\ loaded' = loaded
             /\ ~args.dry_run =>
                  (target_path.v \in DOMAIN fs' /\ fs'[target_path.v] = json_dump(loaded))]_vars

\* a document that drew a warning has been written over the old target
C19_Witness ==
  /\ pc = "flatpak"
  /\ warnings = <<UpdatesWarning>>
  /\ started.parent_exists
  /\ target_path.v \in DOMAIN started.fs
  /\ fs[target_path.v] = json_dump(loaded)
  /\ fs[target_path.v] # started.fs[target_path.v]

\* The input of the run cannot be loaded: the local file is missing, the
\* fetch fails, or the text is not JSON once its comments are stripped
LoadFails ==
  \/ env.input.kind \in {"missing", "URLError", "status"}
  \/ env.input.kind = "text" /\ ~json_loads_value(strip_json_comments(env.input.text)).ok

\* C20: when loading the input fails, main does no partial work: no backup
\* is made, the target is not written, and the exit code is not zero.
C20_LoadFailureDoesNothing ==
  (pc = "done" /\ ~args.restore /\ LoadFails) =>
    /\ fs = started.fs
    /\ parent_exists = started.parent_exists
    /\ exit_code \notin {PyNone, PyInt("0")}

\* a run with --backup on an existing target has ended at the load of a
\* text that is malformed once stripped
C20_Witness ==
  /\ pc = "done"
  /\ ~args.restore
  /\ args.backup
  /\ ~args.dry_run
  /\ env.input = [kind |-> "text", text |-> <<"{", "\"", "a", "\"", ":", "1", "}", "/", "*", "x">>]
  /\ target_path.v \in DOMAIN fs
  /\ exit_code = PyInt("1")
  /\ log = <<Report("error", "RuntimeError")>>

----------------------------------------------------------------------------
(* Further properties of the session *)

Flag(en, i) == DictGet(en, catalog[i].key)

\* C22: toggle_with_feedback(i) with 1 <= i <= 8 flips the flag of the i-th
\* category of the catalog and of no other, adds exactly 1 to changes_made
\* and sets current_profile to "custom"; with i outside 1..8 it leaves
\* enabled, changes_made and current_profile as they were.
C22_ToggleFlipsOne ==
  [][op' = "toggle_with_feedback" =>
       IF arg' \in 1..8
         THEN /\ Keys(enabled') = Keys(enabled)
              /\ \A i \in 1..Len(catalog) :
                   Flag(enabled', i) = (IF i = arg' THEN ~Flag(enabled, i) ELSE Flag(enabled, i))
              /\ changes_made' = changes_made + 1
              /\ current_profile' = "custom"
         ELSE /\ enabled' = enabled
              /\ changes_made' = changes_made
              /\ current_profile' = current_profile]_vars

\* the last category has been switched off by the first change of a session
C22_Witness ==
  /\ op = "toggle_with_feedback"
  /\ arg = 8
  /\ changes_made = 1
  /\ current_profile = "custom"
  /\ ~Flag(enabled, 8)
  /\ \A i \in 1..7 : Flag(enabled, i)

\* C23: in every state the session reaches by toggle, toggle-all,
\* apply_profile and apply, current_profile is a key of the profile
\* registry, so the lookup PROFILES[current_profile] of render never fails.
C23_ProfileIsRegistered ==
  /\ HasKey(PROFILES, current_profile)
  /\ raised # "KeyError"

\* The ids of the categories that are switched on
EnabledIds == {enabled[i].k : i \in {j \in 1..Len(enabled) : enabled[j].v}}

ProfileIds(profile_key) ==
  LET cs == DictGet(PROFILES, profile_key).categories
  IN  {cs[i] : i \in 1..Len(cs)}

\* C24: whenever current_profile names a profile of the registry, the set
\* of enabled categories is exactly that profile's list; so in the initial
\* state, where the profile is strict and every category is enabled.
C24_ProfileDescribesSelection ==
  HasKey(PROFILES, current_profile) => EnabledIds = ProfileIds(current_profile)

\* a profile has been chosen again after toggles had made the session custom
C24_Witness ==
  /\ current_profile = "minimal"
  /\ op = "render"
  /\ changes_made = 7
  /\ EnabledIds = {"ai", "telemetry", "brave"}

\* C26: apply resets changes_made to 0 exactly when a callback is set and
\* returns without raising; when it raises, or none is set, changes_made
\* stays; in every case the enabled-set and current_profile stay.
C26_ApplyResetsOnSuccess ==
  [][op' = "apply" =>
       /\ enabled' = enabled
       /\ current_profile' = current_profile
       /\ changes_made' =
            (IF apply_callback = "set" /\ arg' = "callback returned" THEN 0 ELSE changes_made)
       /\ (arg' = "callback returned") => apply_callback = "set"]_vars

\* a callback has raised on a session with three changes, which are kept
C26_Witness ==
  /\ op = "apply"
  /\ arg = "callback raised"
  /\ apply_callback = "set"
  /\ changes_made = 3
  /\ current_profile = "custom"

\* The run backs the target up: --backup without --dry-run, the target there
BacksUp ==
  /\ args.backup
  /\ ~args.dry_run
  /\ target_path.v \in DOMAIN started.fs

\* C21: in a run with --backup and without --dry-run on an existing target
\* the steps come in the order validate, backup, write: the backup is taken
\* while the target still holds what it held, so the backup file holds the
\* target's content of before the write.
C21_BackupBeforeWrite ==
  [][/\ pc = "validate" => (pc' = "backup" /\ fs' = fs)
     /\ (pc = "backup" /\ BacksUp) =>
          /\ pc' = "write"
          /\ ret'.t = "Path"
          /\ ret'.v \in DOMAIN fs'
          /\ fs'[ret'.v] = started.fs[target_path.v]
          /\ target_path.v \in DOMAIN fs'
          /\ fs'[target_path.v] = started.fs[target_path.v]
     /\ (pc = "write" /\ BacksUp) =>
          /\ pc' = "flatpak"
          /\ fs'[target_path.v] = json_dump(loaded)
          /\ made.t = "Path"
          /\ made.v \in DOMAIN fs'
          /\ fs'[made.v] = started.fs[target_path.v]]_vars

\* a run has ended with the old text in its backup, next to an earlier
\* backup, and the loaded document in the target
C21_Witness ==
  /\ pc = "done"
  /\ BacksUp
  /\ exit_code = PyInt("0")
  /\ made # PyNone
  /\ made.v # EarlierBackup
  /\ EarlierBackup \in DOMAIN fs
  /\ fs[made.v] = OldText
  /\ fs[target_path.v] = json_dump(loaded)
  /\ fs[made.v] # fs[target_path.v]

----------------------------------------------------------------------------
(* The round trip: create_backup, write_json, restore_backup on a target   *)
(* that exists, in a directory that may hold backups already.              *)

StaleText == RawText(<<"s", "t", "a", "l", "e">>)

\* A backup stamped later than any call of the run: made before the local
\* clock was set back
LaterBackup == <<"p", "o", "l", "i", "c", "i", "e", "s", ".", "b", "a", "c", "k", "u", "p", "_", "2", "0", "2", "4", "1", "0", "2", "7", "_", "0", "2", "3", "0", "0", "0">>

\* A file put next to the backups by hand, which the glob matches
ForeignBackup == <<"p", "o", "l", "i", "c", "i", "e", "s", ".", "b", "a", "c", "k", "u", "p", "_", "f", "i", "n", "a", "l">>

PreexistingBackups == {EarlierBackup, LaterBackup, ForeignBackup}

InitRoundTrip ==
  /\ parent_exists = TRUE
  /\ \E content \in {OldText, OlderText} \cup {json_dump(d) : d \in WriteDocuments},
        present \in SUBSET PreexistingBackups :
       fs = [n \in {target_path.v, Neighbour} \cup present |->
               IF n = target_path.v THEN content ELSE StaleText]
  /\ started = [fs |-> fs, parent_exists |-> parent_exists]
  /\ made = PyNone
  /\ clock \in ClockTicks
  /\ ret = PyNone
  /\ log = <<>>
  /\ loaded = PyNone
  /\ warnings = <<>>
  /\ args = <<>>
  /\ exit_code = PyNone
  /\ env = <<>>
  /\ pc = "create_backup"
  /\ phase = "round trip"
  /\ IdleTui
  /\ IdleJson

RoundTripFrame ==
  /\ UNCHANGED <<warnings, args, exit_code, env, started, phase>>
  /\ UNCHANGED tuiVars
  /\ UNCHANGED jsonVars

\* Time passes between two calls
RoundTripTick ==
  /\ pc \in {"write_json", "restore_backup"}
  /\ \E t \in ClockTicks : t > clock /\ clock' = t
  /\ UNCHANGED <<fs, parent_exists, ret, log, made, loaded, pc>>
  /\ RoundTripFrame

RoundTripBackup ==
  /\ pc = "create_backup"
  /\ LET r == create_backup(fs, clock, target_path)
     IN  /\ fs' = r.fs
         /\ ret' = r.ret
         /\ log' = r.log
         /\ made' = r.ret
  /\ pc' = "write_json"
  /\ UNCHANGED <<parent_exists, clock, loaded>>
  /\ RoundTripFrame

RoundTripWrite(data) ==
  /\ pc = "write_json"
  /\ LET r == write_json(fs, parent_exists, target_path, data, FALSE)
     IN  /\ fs' = r.fs
         /\ parent_exists' = r.parent_exists
         /\ log' = r.log
  /\ loaded' = data
  /\ ret' = PyNone
  /\ pc' = "restore_backup"
  /\ UNCHANGED <<clock, made>>
  /\ RoundTripFrame

RoundTripRestore ==
  /\ pc = "restore_backup"
  /\ LET r == restore_backup(fs, target_path)
     IN  /\ fs' = r.fs
         /\ ret' = r.ret
         /\ log' = r.log
  /\ pc' = "done"
  /\ UNCHANGED <<parent_exists, clock, made, loaded>>
  /\ RoundTripFrame

NextRoundTrip ==
  \/ RoundTripTick
  \/ RoundTripBackup
  \/ \E data \in WriteDocuments : RoundTripWrite(data)
  \/ RoundTripRestore

SpecRoundTrip == InitRoundTrip /\ [][NextRoundTrip]_vars

\* C25 as claimed: for an existing target with content C and any set of
\* backups there before, create_backup; write_json(doc); restore_backup
\* leaves the target with content C.
C25_RoundTrip ==
  pc = "done" => fs[target_path.v] = started.fs[target_path.v]

\* No backup that was there before has a name after the new backup's
NoneAfterNew ==
  \A n \in DOMAIN started.fs :
    StartsWith(n, stem(target_path) \o BackupInfix) => (n = made.v \/ StrLess(n, made.v))

\* C25, amended: the round trip leaves the target with content C when no
\* backup that was there before has a name that sorts after the name of
\* the backup the sequence makes.
C25_RoundTripWhenNewIsLatest ==
  (pc = "done" /\ NoneAfterNew) => fs[target_path.v] = started.fs[target_path.v]

\* the old text is back after a document was written over it, an earlier
\* backup with another text lying by
C25_Witness ==
  /\ pc = "done"
  /\ ret = PyTrue
  /\ EarlierBackup \in DOMAIN started.fs
  /\ NoneAfterNew
  /\ started.fs[target_path.v] = OldText
  /\ fs[target_path.v] = OldText
  /\ loaded = PyDict(<<Item("ComponentUpdatesEnabled", PyFalse)>>)
  /\ fs[EarlierBackup] = StaleText

====
